---- MODULE Spec2Model ----
(* space-booking: the rate-limit middleware (per RemoteAddr token bucket)   *)
(* and the booking validation pipeline of internal/server/routes.go and     *)
(* internal/database/database.go, as a state machine of concurrent request  *)
(* handlers.                                                                *)
EXTENDS Integers, Sequences, FiniteSets, TLC

\* ------------------------------------------------------------------ bounds
\* Clock resolution: ticks per second. Tokens are counted in 1/TicksPerSecond.
TicksPerSecond == 2
\* The clock stops advancing at MaxTime ticks.
MaxTime == 4
\* Concurrent request handlers (goroutines serving requests).
NumProcs == 2
\* Requests accepted in a run of the admission specification.
MaxAdmits == 6
\* Requests accepted in a run of the whole server.
MaxRequests == 2
\* Records in the launch API's answer when the availability check is applied
\* on its own.
MaxFeed == 2
\* Calls made when the destination check is applied on its own.
MaxChecks == 2
\* Requests accepted in a run of the admission specification with fairness.
MaxFairAdmits == 3

\* ------------------------------------------------------- program constants
\* rate.NewLimiter(1, 3): 1 token per second, burst of 3.
Limit == 1
Burst == 3

Procs == 1..NumProcs
Times == 0..MaxTime

\* Two clients on the same host, differing only in the ephemeral port.
Addrs == {"192.0.2.1:1234", "192.0.2.1:5678"}

Min(a, b) == IF a <= b THEN a ELSE b

\* ------------------------------------------------------------ token bucket
\* One token, in clock units.
OneToken == TicksPerSecond
Capacity == Burst * TicksPerSecond

NewLimiterEmpty == [tokens |-> 0, last |-> 0]
\* limiter = rate.NewLimiter(1, 3): a bucket that is full when first used.
NewLimiter == [tokens |-> Capacity, last |-> 0]

advanceNoCap(lim, t) == lim.tokens + (t - Min(lim.last, t)) * Limit
advanceNoRefill(lim, t) == lim.tokens
advancePerTick(lim, t) ==
    Min(Capacity, lim.tokens + (t - Min(lim.last, t)) * Limit * TicksPerSecond)
\* Tokens available at time t: the stored tokens plus Limit per second since
\* the last update, capped at the burst size.
advance(lim, t) == Min(Capacity, lim.tokens + (t - Min(lim.last, t)) * Limit)

reserveNNoConsume(lim, t) ==
    IF advance(lim, t) >= OneToken
    THEN [ok |-> TRUE, lim |-> [tokens |-> advance(lim, t), last |-> t]]
    ELSE [ok |-> FALSE, lim |-> lim]
reserveNTouchOnDeny(lim, t) ==
    IF advance(lim, t) >= OneToken
    THEN [ok |-> TRUE, lim |-> [tokens |-> advance(lim, t) - OneToken, last |-> t]]
    ELSE [ok |-> FALSE, lim |-> [tokens |-> lim.tokens, last |-> t]]
\* limiter.Allow() at time t: takes one token when one is available, and
\* leaves the bucket as it was when none is.
reserveN(lim, t) ==
    IF advance(lim, t) >= OneToken
    THEN [ok |-> TRUE, lim |-> [tokens |-> advance(lim, t) - OneToken, last |-> t]]
    ELSE [ok |-> FALSE, lim |-> lim]

HostOnlyKey(addr) == "192.0.2.1"
\* ip := r.RemoteAddr; getVisitor(ip): the registry key is the raw address.
VisitorKey(addr) == addr

\* ------------------------------------------------------------- time values
\* 2049-12-25 as a day number (days since 1970-01-01): a Saturday.
Day20491225 == 29213

\* A time.Time: an instant (hours since 1970-01-01T00:00Z) and the UTC offset
\* (hours) of the zone it is shown in.
ZeroTime == [unix |-> (0 - 719162) * 24, off |-> 0]

\* launchDate.IsZero(): the instant is January 1, year 1, 00:00 UTC.
IsZero(t) == t.unix = ZeroTime.unix

\* An RFC 3339 text is written as a local date, a local hour and an offset;
\* anything else is [kind |-> "invalid"].
Stamp(d, h, o) == [kind |-> "rfc3339", date |-> d, hour |-> h, off |-> o]
InvalidStamp == [kind |-> "invalid"]

\* time.Parse(time.RFC3339, s): the instant the text denotes, in its own zone.
ParseRFC3339(s) ==
    IF s.kind = "rfc3339"
    THEN [err |-> FALSE, time |-> [unix |-> s.date * 24 + s.hour - s.off, off |-> s.off]]
    ELSE [err |-> TRUE, time |-> ZeroTime]

\* t.Format("2006-01-02"): the calendar day of t in t's own zone.
FormatDate(t) == (t.unix + t.off) \div 24

\* t.Weekday(): Sunday = 0 ... Saturday = 6 (1970-01-01 was a Thursday).
Weekday(t) == (FormatDate(t) + 4) % 7

\* ------------------------------------------------------- conflict resolver
RECURSIVE ScanStopAtInvalid(_, _, _, _)
ScanStopAtInvalid(launches, i, launchpadID, launchDate) ==
    IF i > Len(launches) THEN TRUE
    ELSE IF ParseRFC3339(launches[i].date_local).err THEN TRUE
    ELSE IF /\ launches[i].launchpad = launchpadID
            /\ FormatDate(ParseRFC3339(launches[i].date_local).time) = FormatDate(launchDate)
         THEN FALSE
         ELSE ScanStopAtInvalid(launches, i + 1, launchpadID, launchDate)
RECURSIVE ScanInvalidIsConflict(_, _, _, _)
ScanInvalidIsConflict(launches, i, launchpadID, launchDate) ==
    IF i > Len(launches) THEN TRUE
    ELSE IF ParseRFC3339(launches[i].date_local).err
         THEN launches[i].launchpad # launchpadID
              /\ ScanInvalidIsConflict(launches, i + 1, launchpadID, launchDate)
    ELSE IF /\ launches[i].launchpad = launchpadID
            /\ FormatDate(ParseRFC3339(launches[i].date_local).time) = FormatDate(launchDate)
         THEN FALSE
         ELSE ScanInvalidIsConflict(launches, i + 1, launchpadID, launchDate)
\* CheckLaunchpadAvailability, the loop over the decoded launches from index i:
\* FALSE at the first launch on this launchpad and day, TRUE when there is none.
RECURSIVE ScanLaunches(_, _, _, _)
ScanLaunches(launches, i, launchpadID, launchDate) ==
    IF i > Len(launches) THEN TRUE
    ELSE IF ParseRFC3339(launches[i].date_local).err
         THEN ScanLaunches(launches, i + 1, launchpadID, launchDate)
    ELSE IF /\ launches[i].launchpad = launchpadID
            /\ FormatDate(ParseRFC3339(launches[i].date_local).time) = FormatDate(launchDate)
         THEN FALSE
         ELSE ScanLaunches(launches, i + 1, launchpadID, launchDate)

\* What http.Get, io.ReadAll and json.Unmarshal can end in.
FetchOutcomes == {"ok", "get error", "read error", "unmarshal error"}

CheckLaunchpadAvailabilityFailOpen(fetch, launches, launchpadID, launchDate) ==
    IF fetch # "ok"
    THEN [ok |-> TRUE, err |-> "nil"]
    ELSE [ok |-> ScanLaunches(launches, 1, launchpadID, launchDate), err |-> "nil"]
\* CheckLaunchpadAvailability(launchpadID, launchDate) -> (bool, error), for a
\* fetch that ended in `fetch` and, when it succeeded, served `launches`.
CheckLaunchpadAvailability(fetch, launches, launchpadID, launchDate) ==
    IF fetch # "ok"
    THEN [ok |-> FALSE, err |-> fetch]
    ELSE [ok |-> ScanLaunches(launches, 1, launchpadID, launchDate), err |-> "nil"]

\* What a query of the database can end in.
QueryOutcomes == {"ok", "query error"}

\* SELECT id FROM destinations ORDER BY id
RECURSIVE OrderById(_)
OrderById(ids) ==
    IF ids = {} THEN <<>>
    ELSE LET least == CHOOSE x \in ids : \A y \in ids : x <= y
         IN  <<least>> \o OrderById(ids \ {least})

CheckDestinationScheduleEmptyMismatch(query, ids, destinationID, launchpadID, launchDate) ==
    IF query # "ok"
    THEN [ok |-> FALSE, err |-> query]
    ELSE IF Cardinality(ids) = 0
    THEN [ok |-> FALSE, err |-> "nil"]
    ELSE LET destinationIDs == OrderById(ids)
             weekday == (Weekday(launchDate) + 6) % 7
             index == weekday % Len(destinationIDs)
         IN  [ok |-> destinationID = destinationIDs[index + 1], err |-> "nil"]
CheckDestinationScheduleAnyDay(query, ids, destinationID, launchpadID, launchDate) ==
    IF query # "ok"
    THEN [ok |-> FALSE, err |-> query]
    ELSE IF Cardinality(ids) = 0
    THEN [ok |-> FALSE, err |-> "no destinations available"]
    ELSE [ok |-> destinationID \in ids, err |-> "nil"]
CheckDestinationScheduleByDay(query, ids, destinationID, launchpadID, launchDate) ==
    IF query # "ok"
    THEN [ok |-> FALSE, err |-> query]
    ELSE IF Cardinality(ids) = 0
    THEN [ok |-> FALSE, err |-> "no destinations available"]
    ELSE LET destinationIDs == OrderById(ids)
             index == FormatDate(launchDate) % Len(destinationIDs)
         IN  [ok |-> destinationID = destinationIDs[index + 1], err |-> "nil"]
CheckDestinationScheduleSundayFirst(query, ids, destinationID, launchpadID, launchDate) ==
    IF query # "ok"
    THEN [ok |-> FALSE, err |-> query]
    ELSE IF Cardinality(ids) = 0
    THEN [ok |-> FALSE, err |-> "no destinations available"]
    ELSE LET destinationIDs == OrderById(ids)
             index == Weekday(launchDate) % Len(destinationIDs)
         IN  [ok |-> destinationID = destinationIDs[index + 1], err |-> "nil"]
\* CheckDestinationSchedule(destinationID, launchpadID, launchDate) -> (bool,
\* error), for a query that ended in `query` over the table's ids.
CheckDestinationSchedule(query, ids, destinationID, launchpadID, launchDate) ==
    IF query # "ok"
    THEN [ok |-> FALSE, err |-> query]
    ELSE IF Cardinality(ids) = 0
    THEN [ok |-> FALSE, err |-> "no destinations available"]
    ELSE LET destinationIDs == OrderById(ids)
             weekday == (Weekday(launchDate) + 6) % 7
             index == weekday % Len(destinationIDs)
         IN  [ok |-> destinationID = destinationIDs[index + 1], err |-> "nil"]

\* ------------------------------------------------------------------- state
VARIABLES
    now,        \* wall clock, in ticks
    mu,         \* sync.Mutex of the registry: 0 when free, else the holder
    visitors,   \* map[string]*rate.Limiter: key -> index into limiters
    limiters,   \* the rate.Limiter objects allocated so far
    pc,         \* each handler's position
    ip,         \* each handler's r.RemoteAddr
    route,      \* each handler's method and path
    body,       \* each handler's request body
    limiter,    \* each handler's local *rate.Limiter (0 = nil)
    trace,      \* what the handler of the current request has done so far
    resp,       \* status code written for the current request (0 = none yet)
    log,        \* every limiter.Allow() call so far: address, time, result
    nreq,       \* requests accepted since the initial state
    feed,       \* what the launch API serves
    dests,      \* ids in the destinations table
    bookings,   \* rows of the bookings table
    call,       \* the arguments of a function applied on its own
    ret         \* and what it returned

vars == <<now, mu, visitors, limiters, pc, ip, route, body, limiter, trace,
          resp, log, nreq, feed, dests, bookings, call, ret>>

limiterVars == <<visitors, limiters, mu>>
admitVars == <<now, visitors, limiters, mu, limiter, log>>
reqVars == <<ip, route, body>>
fnVars == <<call, ret>>
storeVars == <<feed, dests, bookings, call, ret>>

\* ---------------------------------------------------------------- requests
Pads == {"test_launchpad", "other_launchpad"}

NoBody == [kind |-> "none"]
Malformed == [kind |-> "malformed"]
Absent == [kind |-> "absent"]

\* A JSON booking: the two dates are RFC 3339 texts, or absent.
BookingJSON(b, l, d, ld) ==
    [kind |-> "booking", birthday |-> b, launchpad_id |-> l,
     destination_id |-> d, launch_date |-> ld]

\* json.NewDecoder(r.Body).Decode(&booking): an absent date stays the zero
\* time.Time; a payload that is not a booking, or a date that is not RFC 3339,
\* is an error.
DecodeTime(s) == IF s.kind = "absent" THEN ZeroTime ELSE ParseRFC3339(s).time
Decode(b) ==
    IF \/ b.kind # "booking"
       \/ b.birthday.kind = "invalid"
       \/ b.launch_date.kind = "invalid"
    THEN [err |-> TRUE]
    ELSE [err |-> FALSE,
          booking |-> [Birthday |-> DecodeTime(b.birthday),
                       LaunchpadID |-> b.launchpad_id,
                       DestinationID |-> b.destination_id,
                       LaunchDate |-> DecodeTime(b.launch_date)]]

\* One record of the launch API's answer.
Launch(l, s) == [launchpad |-> l, date_local |-> s]

\* ------------------------------------------------------------- middleware
MutexIgnored == TRUE
\* mu.Lock() returns only when no other goroutine holds the mutex.
MutexFree == mu = 0

Accept(p, a, r, b) ==
    /\ pc[p] = "idle"
    /\ ip' = [ip EXCEPT ![p] = a]
    /\ route' = [route EXCEPT ![p] = r]
    /\ body' = [body EXCEPT ![p] = b]
    /\ trace' = [trace EXCEPT ![p] = <<>>]
    /\ resp' = [resp EXCEPT ![p] = 0]
    /\ pc' = [pc EXCEPT ![p] = "lock"]
    /\ nreq' = nreq + 1
    /\ UNCHANGED <<now, limiterVars, limiter, log, storeVars>>

\* The payloads clients send to POST /bookings.
LaunchDay == Stamp(Day20491225, 0, 0)
Birthday == Stamp(7305, 0, 0)
Bodies ==
    {Malformed,
     BookingJSON(Absent, "test_launchpad", 6, LaunchDay),
     BookingJSON(Birthday, "test_launchpad", 6, Absent),
     BookingJSON(Birthday, "test_launchpad", 6, LaunchDay),
     BookingJSON(Birthday, "test_launchpad", 1, LaunchDay)}

\* RegisterRoutes: the three endpoints behind the middleware.
Requests ==
    {[route |-> "GET /health", body |-> NoBody],
     [route |-> "GET /bookings", body |-> NoBody]} \cup
    {[route |-> "POST /bookings", body |-> b] : b \in Bodies}

\* A client calls any endpoint.
Receive ==
    \E p \in Procs, a \in Addrs, rq \in Requests :
        /\ nreq < MaxRequests
        /\ Accept(p, a, rq.route, rq.body)

\* A client calls GET /health.
ReceiveHealth ==
    \E p \in Procs, a \in Addrs :
        /\ nreq < MaxAdmits
        /\ Accept(p, a, "GET /health", NoBody)

\* getVisitor: mu.Lock()
getVisitorLock(p) ==
    /\ pc[p] = "lock"
    /\ MutexFree
    /\ mu' = p
    /\ pc' = [pc EXCEPT ![p] = "lookup"]
    /\ UNCHANGED <<now, visitors, limiters, ip, route, body, limiter, trace,
                   resp, log, nreq, storeVars>>

pcAfterLookupNoUnlock(exists) == IF exists THEN "allow" ELSE "create"
\* getVisitor after the map lookup: a new address gets its limiter created;
\* either way the function returns through the deferred mu.Unlock().
pcAfterLookup(exists) == IF exists THEN "unlock" ELSE "create"

\* getVisitor: limiter, exists := visitors[ip]
getVisitorLookup(p) ==
    /\ pc[p] = "lookup"
    /\ IF VisitorKey(ip[p]) \in DOMAIN visitors
       THEN /\ limiter' = [limiter EXCEPT ![p] = visitors[VisitorKey(ip[p])]]
            /\ pc' = [pc EXCEPT ![p] = pcAfterLookup(TRUE)]
       ELSE /\ limiter' = limiter
            /\ pc' = [pc EXCEPT ![p] = pcAfterLookup(FALSE)]
    /\ UNCHANGED <<now, limiterVars, ip, route, body, trace, resp, log, nreq,
                   storeVars>>

\* getVisitor: limiter = rate.NewLimiter(1, 3); visitors[ip] = limiter
getVisitorCreate(p) ==
    /\ pc[p] = "create"
    /\ limiters' = Append(limiters, NewLimiter)
    /\ visitors' = [k \in DOMAIN visitors \cup {VisitorKey(ip[p])} |->
                       IF k = VisitorKey(ip[p]) THEN Len(limiters) + 1
                       ELSE visitors[k]]
    /\ limiter' = [limiter EXCEPT ![p] = Len(limiters) + 1]
    /\ pc' = [pc EXCEPT ![p] = "unlock"]
    /\ UNCHANGED <<now, mu, ip, route, body, trace, resp, log, nreq, storeVars>>

\* getVisitor: the deferred mu.Unlock(), then return limiter
getVisitorUnlock(p) ==
    /\ pc[p] = "unlock"
    /\ mu' = 0
    /\ pc' = [pc EXCEPT ![p] = "allow"]
    /\ UNCHANGED <<now, visitors, limiters, ip, route, body, limiter, trace,
                   resp, log, nreq, storeVars>>

pcAfterAllowNoReturn(ok) == "next"
\* rateLimitMiddleware: a denied request is answered 429 and the middleware
\* returns; an admitted one goes on to next.ServeHTTP.
pcAfterAllow(ok) == IF ok THEN "next" ELSE "idle"

\* rateLimitMiddleware: if !limiter.Allow() { 429; return }; next.ServeHTTP
Allow(p) ==
    /\ pc[p] = "allow"
    /\ LET r == reserveN(limiters[limiter[p]], now) IN
        /\ limiters' = [limiters EXCEPT ![limiter[p]] = r.lim]
        /\ log' = Append(log, [ip |-> ip[p], t |-> now, ok |-> r.ok,
                               lim |-> limiter[p]])
        /\ trace' = [trace EXCEPT ![p] =
                        Append(@, IF r.ok THEN "Allow=true" ELSE "Allow=false")]
        /\ pc' = [pc EXCEPT ![p] = pcAfterAllow(r.ok)]
        /\ resp' = [resp EXCEPT ![p] = IF r.ok THEN 0 ELSE 429]
    /\ limiter' = [limiter EXCEPT ![p] = 0]
    /\ UNCHANGED <<now, mu, visitors, ip, route, body, nreq, storeVars>>

\* healthHandler: s.db.Health() marshalled, 200
healthHandler(p) ==
    /\ pc[p] = "next"
    /\ route[p] = "GET /health"
    /\ trace' = [trace EXCEPT ![p] = Append(@, "Health")]
    /\ resp' = [resp EXCEPT ![p] = 200]
    /\ pc' = [pc EXCEPT ![p] = "idle"]
    /\ UNCHANGED <<now, limiterVars, ip, route, body, limiter, log, nreq,
                   storeVars>>

\* GetAllBookingsHandler: s.db.GetAllBookings(), 200 with the rows or 500
GetAllBookingsHandler(p) ==
    /\ pc[p] = "next"
    /\ route[p] = "GET /bookings"
    /\ \E query \in QueryOutcomes :
        /\ trace' = [trace EXCEPT ![p] = Append(@, "GetAllBookings:" \o query)]
        /\ resp' = [resp EXCEPT ![p] = IF query = "ok" THEN 200 ELSE 500]
    /\ pc' = [pc EXCEPT ![p] = "idle"]
    /\ UNCHANGED <<admitVars, reqVars, nreq, storeVars>>

\* validateBooking, its first gate: both dates must be set.
MissingFieldsLaunchOnly(booking) == IsZero(booking.LaunchDate)
MissingFields(booking) == IsZero(booking.LaunchDate) \/ IsZero(booking.Birthday)

validateBookingScheduleFirst(fetch, launches, query, ids, booking) ==
    LET d == CheckDestinationSchedule(query, ids, booking.DestinationID,
                                      booking.LaunchpadID, booking.LaunchDate)
        a == CheckLaunchpadAvailability(fetch, launches, booking.LaunchpadID,
                                        booking.LaunchDate)
    IN  IF MissingFields(booking)
        THEN [valid |-> FALSE, err |-> "launch date and birthday must be provided"]
        ELSE IF d.err # "nil" THEN [valid |-> FALSE, err |-> d.err]
        ELSE IF ~d.ok THEN [valid |-> FALSE, err |-> "nil"]
        ELSE IF a.err # "nil" THEN [valid |-> FALSE, err |-> a.err]
        ELSE IF ~a.ok THEN [valid |-> FALSE, err |-> "nil"]
        ELSE [valid |-> TRUE, err |-> "nil"]
\* validateBooking(&booking) -> (bool, error), run from start to end, for a
\* fetch that ended in `fetch` serving `launches` and a destinations query
\* that ended in `query` over the table's ids.
validateBooking(fetch, launches, query, ids, booking) ==
    LET a == CheckLaunchpadAvailability(fetch, launches, booking.LaunchpadID,
                                        booking.LaunchDate)
        d == CheckDestinationSchedule(query, ids, booking.DestinationID,
                                      booking.LaunchpadID, booking.LaunchDate)
    IN  IF MissingFields(booking)
        THEN [valid |-> FALSE, err |-> "launch date and birthday must be provided"]
        ELSE IF a.err # "nil" THEN [valid |-> FALSE, err |-> a.err]
        ELSE IF ~a.ok THEN [valid |-> FALSE, err |-> "nil"]
        ELSE IF d.err # "nil" THEN [valid |-> FALSE, err |-> d.err]
        ELSE IF ~d.ok THEN [valid |-> FALSE, err |-> "nil"]
        ELSE [valid |-> TRUE, err |-> "nil"]

\* CreateBookingHandler up to the first call of the database service: decode
\* the payload (400 on error), then validateBooking's check of the two dates
\* (an error, so 500).
CreateBookingHandler(p) ==
    /\ pc[p] = "next"
    /\ route[p] = "POST /bookings"
    /\ IF Decode(body[p]).err
       THEN /\ trace' = [trace EXCEPT ![p] = Append(@, "Decode:error")]
            /\ resp' = [resp EXCEPT ![p] = 400]
            /\ pc' = [pc EXCEPT ![p] = "idle"]
       ELSE IF MissingFields(Decode(body[p]).booking)
       THEN /\ trace' = [trace EXCEPT ![p] = @ \o <<"Decode:ok", "Validate:missing">>]
            /\ resp' = [resp EXCEPT ![p] = 500]
            /\ pc' = [pc EXCEPT ![p] = "idle"]
       ELSE /\ trace' = [trace EXCEPT ![p] = @ \o <<"Decode:ok", "Validate:present">>]
            /\ resp' = resp
            /\ pc' = [pc EXCEPT ![p] = "availability"]
    /\ UNCHANGED <<admitVars, reqVars, nreq, storeVars>>

LaunchesAndBookings ==
    feed \o [k \in DOMAIN bookings |->
                Launch(bookings[k].LaunchpadID,
                       Stamp(FormatDate(bookings[k].LaunchDate), 0, 0))]
\* What http.Get(SpaceXAPIURL) is answered with: the launch API's records,
\* and nothing of the service's own.
LaunchesServed == feed

\* validateBooking: s.db.CheckLaunchpadAvailability(booking.LaunchpadID,
\* launchDate); an error is a 500, an unavailable launchpad a 400.
validateBookingAvailability(p) ==
    /\ pc[p] = "availability"
    /\ \E fetch \in FetchOutcomes :
        LET booking == Decode(body[p]).booking
            r == CheckLaunchpadAvailability(fetch, LaunchesServed,
                                            booking.LaunchpadID,
                                            booking.LaunchDate)
        IN  IF r.err # "nil"
            THEN /\ trace' = [trace EXCEPT ![p] = Append(@, "FetchFeed:error")]
                 /\ resp' = [resp EXCEPT ![p] = 500]
                 /\ pc' = [pc EXCEPT ![p] = "idle"]
            ELSE IF ~r.ok
            THEN /\ trace' = [trace EXCEPT ![p] = Append(@, "FetchFeed:conflict")]
                 /\ resp' = [resp EXCEPT ![p] = 400]
                 /\ pc' = [pc EXCEPT ![p] = "idle"]
            ELSE /\ trace' = [trace EXCEPT ![p] = Append(@, "FetchFeed:free")]
                 /\ resp' = resp
                 /\ pc' = [pc EXCEPT ![p] = "schedule"]
    /\ UNCHANGED <<admitVars, reqVars, nreq, storeVars>>

\* validateBooking: s.db.CheckDestinationSchedule(booking.DestinationID,
\* booking.LaunchpadID, launchDate); an error is a 500, a mismatch a 400.
validateBookingSchedule(p) ==
    /\ pc[p] = "schedule"
    /\ \E query \in QueryOutcomes :
        LET booking == Decode(body[p]).booking
            r == CheckDestinationSchedule(query, dests, booking.DestinationID,
                                          booking.LaunchpadID, booking.LaunchDate)
        IN  IF r.err # "nil"
            THEN /\ trace' = [trace EXCEPT ![p] = Append(@, "ReadDestinations:error")]
                 /\ resp' = [resp EXCEPT ![p] = 500]
                 /\ pc' = [pc EXCEPT ![p] = "idle"]
            ELSE IF ~r.ok
            THEN /\ trace' = [trace EXCEPT ![p] = Append(@, "ReadDestinations:mismatch")]
                 /\ resp' = [resp EXCEPT ![p] = 400]
                 /\ pc' = [pc EXCEPT ![p] = "idle"]
            ELSE /\ trace' = [trace EXCEPT ![p] = Append(@, "ReadDestinations:match")]
                 /\ resp' = resp
                 /\ pc' = [pc EXCEPT ![p] = "insert"]
    /\ UNCHANGED <<admitVars, reqVars, nreq, storeVars>>

UniqueSiteAndDay(rows, booking) ==
    \E k \in DOMAIN rows :
        /\ rows[k].LaunchpadID = booking.LaunchpadID
        /\ FormatDate(rows[k].LaunchDate) = FormatDate(booking.LaunchDate)
\* Whether the bookings table refuses the row because of the rows it holds:
\* its only key is the serial id, so it never does.
UniqueViolation(rows, booking) == FALSE

\* CreateBookingHandler: s.db.CreateBooking(&booking); 201 with the booking,
\* or 500 when the insert fails.
CreateBooking(p) ==
    /\ pc[p] = "insert"
    /\ \E query \in QueryOutcomes :
        /\ (query = "ok") => ~UniqueViolation(bookings, Decode(body[p]).booking)
        /\ trace' = [trace EXCEPT ![p] = Append(@, "Insert:" \o query)]
        /\ IF query = "ok"
           THEN /\ bookings' = Append(bookings, Decode(body[p]).booking)
                /\ resp' = [resp EXCEPT ![p] = 201]
           ELSE /\ bookings' = bookings
                /\ resp' = [resp EXCEPT ![p] = 500]
    /\ pc' = [pc EXCEPT ![p] = "idle"]
    /\ UNCHANGED <<admitVars, reqVars, nreq, feed, dests, fnVars>>

\* Wall-clock time passes.
Tick ==
    /\ now < MaxTime
    /\ now' = now + 1
    /\ UNCHANGED <<limiterVars, pc, ip, route, body, limiter, trace, resp, log,
                   nreq, storeVars>>

\* ----------------------------------------------------------- specifications
InitServer(f, d, v, l, h) ==
    /\ now = 0
    /\ mu = 0
    /\ visitors = v
    /\ limiters = l
    /\ pc = [p \in Procs |-> "idle"]
    /\ ip = [p \in Procs |-> "192.0.2.1:1234"]
    /\ route = [p \in Procs |-> "GET /health"]
    /\ body = [p \in Procs |-> NoBody]
    /\ limiter = [p \in Procs |-> 0]
    /\ trace = [p \in Procs |-> <<>>]
    /\ resp = [p \in Procs |-> 0]
    /\ log = h
    /\ nreq = 0
    /\ feed = f
    /\ dests = d
    /\ bookings = <<>>

InitWith(f, d, v, l, h) ==
    /\ InitServer(f, d, v, l, h)
    /\ call = <<>>
    /\ ret = <<>>

\* The destinations table as the migration seeds it (ids 1..7), or empty.
DestTables == {1..7, {}}

\* What the launch API serves: nothing, or a launch on the requested day.
InitFeeds == {<<>>, <<Launch("test_launchpad", LaunchDay)>>}

\* The server as started, or right after one client's burst of three health
\* checks used up its bucket.
Burst1234 == [ip |-> "192.0.2.1:1234", t |-> 0, ok |-> TRUE, lim |-> 1]

Init ==
    \E f \in InitFeeds, d \in DestTables :
        \/ InitWith(f, d, <<>>, <<>>, <<>>)
        \/ InitWith(f, d, [k \in {VisitorKey("192.0.2.1:1234")} |-> 1],
                    <<[tokens |-> 0, last |-> 0]>>,
                    <<Burst1234, Burst1234, Burst1234>>)

\* The whole server: every endpoint behind the middleware.
Next ==
    \/ Tick
    \/ Receive
    \/ \E p \in Procs : getVisitorLock(p)
    \/ \E p \in Procs : getVisitorLookup(p)
    \/ \E p \in Procs : getVisitorCreate(p)
    \/ \E p \in Procs : getVisitorUnlock(p)
    \/ \E p \in Procs : Allow(p)
    \/ \E p \in Procs : healthHandler(p)
    \/ \E p \in Procs : GetAllBookingsHandler(p)
    \/ \E p \in Procs : CreateBookingHandler(p)
    \/ \E p \in Procs : validateBookingAvailability(p)
    \/ \E p \in Procs : validateBookingSchedule(p)
    \/ \E p \in Procs : CreateBooking(p)

Spec == Init /\ [][Next]_vars

InitAdmit == InitWith(<<>>, 1..7, <<>>, <<>>, <<>>)

\* The admission controller under concurrent health-check requests.
NextAdmit ==
    \/ Tick
    \/ ReceiveHealth
    \/ \E p \in Procs : getVisitorLock(p)
    \/ \E p \in Procs : getVisitorLookup(p)
    \/ \E p \in Procs : getVisitorCreate(p)
    \/ \E p \in Procs : getVisitorUnlock(p)
    \/ \E p \in Procs : Allow(p)
    \/ \E p \in Procs : healthHandler(p)

SpecAdmit == InitAdmit /\ [][NextAdmit]_vars

\* A client calls GET /health, in a run of at most MaxFairAdmits requests.
ReceiveHealthFair ==
    \E p \in Procs, a \in Addrs :
        /\ nreq < MaxFairAdmits
        /\ Accept(p, a, "GET /health", NoBody)

\* The steps handler p takes inside the middleware once it has the mutex, and
\* the step of the handler behind it.
AdmitStep(p) ==
    \/ getVisitorLookup(p)
    \/ getVisitorCreate(p)
    \/ getVisitorUnlock(p)
    \/ Allow(p)
    \/ healthHandler(p)

NextAdmitFair ==
    \/ Tick
    \/ ReceiveHealthFair
    \/ \E p \in Procs : getVisitorLock(p)
    \/ \E p \in Procs : AdmitStep(p)

\* The admission controller with every goroutine scheduled fairly: a handler
\* that can take a step eventually takes it, and a handler waiting in
\* mu.Lock() gets the mutex if it is free again and again.
SpecAdmitFair ==
    /\ InitAdmit
    /\ [][NextAdmitFair]_vars
    /\ \A p \in Procs : WF_vars(AdmitStep(p))
    /\ \A p \in Procs : SF_vars(getVisitorLock(p))

\* ------------------------------------------- the availability check alone
\* Timestamps the launch API may serve: not RFC 3339, midnight UTC on the day
\* and on the next, late evening UTC on the day, and that same instant as
\* written two hours east (already the next day there).
FeedStamps ==
    {InvalidStamp,
     Stamp(Day20491225, 0, 0),
     Stamp(Day20491225 + 1, 0, 0),
     Stamp(Day20491225, 23, 0),
     Stamp(Day20491225 + 1, 1, 2)}

\* Launch dates a client may ask for.
LaunchDateTexts ==
    {Stamp(Day20491225, 0, 0),
     Stamp(Day20491225 + 1, 0, 0),
     Stamp(Day20491225 + 1, 1, 2)}

\* All answers of the launch API with at most n records.
FeedsUpTo(n) ==
    UNION {[1..k -> {Launch(l, st) : l \in Pads, st \in FeedStamps}] : k \in 0..n}

InitAvail ==
    /\ InitServer(<<>>, 1..7, <<>>, <<>>, <<>>)
    /\ call \in [fetch : FetchOutcomes, launches : FeedsUpTo(MaxFeed),
                  launchpadID : Pads, launch_date : LaunchDateTexts]
    /\ ret = <<>>

\* s.CheckLaunchpadAvailability(launchpadID, launchDate) on a decoded date.
ApplyCheckLaunchpadAvailability ==
    /\ ret = <<>>
    /\ call # <<>>
    /\ ret' = CheckLaunchpadAvailability(call.fetch, call.launches,
                                         call.launchpadID,
                                         DecodeTime(call.launch_date))
    /\ UNCHANGED <<admitVars, reqVars, pc, trace, resp, nreq, feed, dests,
                   bookings, call>>

SpecAvail == InitAvail /\ [][ApplyCheckLaunchpadAvailability]_vars

\* ------------------------------------------- one booking request on its own
\* Timestamps the launch API may serve to a booking request.
CreateFeedStamps == {InvalidStamp, LaunchDay, Stamp(Day20491225 + 1, 0, 0)}

\* All answers of the launch API with at most n such records.
CreateFeedsUpTo(n) ==
    UNION {[1..k -> {Launch(l, st) : l \in Pads, st \in CreateFeedStamps}] : k \in 0..n}

\* The destinations table: empty, as seeded, or cut down to three rows.
CreateDestTables == {{}, 1..7, 1..3}

\* The payloads of a booking request: not a booking, or a booking with each
\* date present or absent.
CreateBodies ==
    {Malformed} \cup
    {BookingJSON(b, l, d, ld) :
        b \in {Absent, Birthday}, l \in Pads, d \in {1, 6},
        ld \in {Absent} \cup LaunchDateTexts}

InitCreate ==
    \E f \in CreateFeedsUpTo(MaxFeed), d \in CreateDestTables :
        /\ InitServer(f, d, <<>>, <<>>, <<>>)
        /\ call \in [fetch : FetchOutcomes, query : QueryOutcomes,
                      insert : QueryOutcomes, body : CreateBodies]
        /\ ret = <<>>

\* CreateBookingHandler(w, r) run from start to end with no other request in
\* flight: ret is what validateBooking returned (<<>> when it was not called)
\* and the status code and text written to w.
ApplyCreateBookingHandler ==
    /\ ret = <<>>
    /\ call # <<>>
    /\ LET decoded == Decode(call.body)
           v == IF decoded.err THEN <<>>
                ELSE validateBooking(call.fetch, feed, call.query, dests,
                                     decoded.booking)
       IN  IF decoded.err
           THEN /\ ret' = [v |-> v, status |-> 400, text |-> "Invalid request payload"]
                /\ bookings' = bookings
           ELSE IF v.err # "nil"
           THEN /\ ret' = [v |-> v, status |-> 500, text |-> "Internal Server Error"]
                /\ bookings' = bookings
           ELSE IF ~v.valid
           THEN /\ ret' = [v |-> v, status |-> 400,
                           text |-> "Flight is cancelled due to scheduling conflicts."]
                /\ bookings' = bookings
           ELSE IF call.insert # "ok"
           THEN /\ ret' = [v |-> v, status |-> 500, text |-> "Internal Server Error"]
                /\ bookings' = bookings
           ELSE /\ ret' = [v |-> v, status |-> 201, text |-> "booking"]
                /\ bookings' = Append(bookings, decoded.booking)
    /\ UNCHANGED <<admitVars, reqVars, pc, trace, resp, nreq, feed, dests, call>>

SpecCreate == InitCreate /\ [][ApplyCreateBookingHandler]_vars

\* ------------------------------------------ the destination check alone
\* Launch dates of the week of 2049-12-25: Monday 2049-12-20 to Sunday
\* 2049-12-26 at midnight UTC, and a Saturday evening written two hours east,
\* where it is Sunday already.
SchedDates ==
    {Stamp(Day20491225 - 5 + k, 0, 0) : k \in 0..6}
        \cup {Stamp(Day20491225 + 1, 1, 2)}

\* The destinations table: empty, as seeded, with rows deleted, or with two
\* rows added.
SchedTables == {{}, 1..7, 1..3, {2, 4, 6}, {7}, 1..9}

InitSched ==
    \E d \in SchedTables :
        /\ InitServer(<<>>, d, <<>>, <<>>, <<>>)
        /\ call \in [query : QueryOutcomes, destinationID : 1..8,
                      launchpadID : {"test_launchpad"}, launch_date : SchedDates]
        /\ ret = <<>>

\* s.CheckDestinationSchedule(destinationID, launchpadID, launchDate) against
\* the table as it is now; ret lists the results so far, each with the rows
\* the table held when the call was made.
ApplyCheckDestinationSchedule ==
    /\ Len(ret) < MaxChecks
    /\ ret' = Append(ret,
                     [ids |-> dests,
                      r |-> CheckDestinationSchedule(call.query, dests,
                                                     call.destinationID,
                                                     call.launchpadID,
                                                     DecodeTime(call.launch_date))])
    /\ UNCHANGED <<admitVars, reqVars, pc, trace, resp, nreq, feed, dests,
                   bookings, call>>

\* Rows of the destinations table are inserted or deleted between two calls.
UpdateDestinations ==
    /\ Len(ret) < MaxChecks
    /\ dests' \in SchedTables \ {dests}
    /\ UNCHANGED <<admitVars, reqVars, pc, trace, resp, nreq, feed, bookings,
                   call, ret>>

NextSched == ApplyCheckDestinationSchedule \/ UpdateDestinations

SpecSched == InitSched /\ [][NextSched]_vars

\* ------------------------------------------------- validateBooking alone
\* The payloads validated: each date present or absent, either launchpad, the
\* day's destination or another.
ValidateBodies ==
    {BookingJSON(b, l, d, ld) :
        b \in {Absent, Birthday}, l \in Pads, d \in {1, 6},
        ld \in {Absent, LaunchDay}}

\* Two calls against the same launch API answer and destinations table.
InitValidate ==
    \E f \in InitFeeds, d \in DestTables :
        /\ InitServer(f, d, <<>>, <<>>, <<>>)
        /\ call \in [1..2 -> [fetch : FetchOutcomes, query : QueryOutcomes,
                               body : ValidateBodies]]
        /\ ret = <<>>

\* s.validateBooking(&booking) for the next of the calls; ret lists the
\* values returned so far.
ApplyValidateBooking ==
    /\ Len(ret) < Len(call)
    /\ LET c == call[Len(ret) + 1]
       IN  ret' = Append(ret, validateBooking(c.fetch, feed, c.query, dests,
                                              Decode(c.body).booking))
    /\ UNCHANGED <<admitVars, reqVars, pc, trace, resp, nreq, feed, dests,
                   bookings, call>>

SpecValidate == InitValidate /\ [][ApplyValidateBooking]_vars

\* ------------------------------------------------------- reading the log
\* The limiter.Allow() calls made for address a, oldest first.
CallsOf(a) == LET IsA(e) == e.ip = a IN SelectSeq(log, IsA)

\* The positions in the log of the admitted calls for address a.
AdmitsOf(a) == {i \in DOMAIN log : log[i].ip = a /\ log[i].ok}

\* The bucket the registry holds for address a (<<>> when it holds none).
BucketOf(a) ==
    IF VisitorKey(a) \in DOMAIN visitors
    THEN limiters[visitors[VisitorKey(a)]]
    ELSE <<>>

\* Whether a call for address a would be admitted in this state.
WouldAdmit(a) ==
    reserveN(IF BucketOf(a) = <<>> THEN NewLimiter ELSE BucketOf(a), now).ok

\* The step is a limiter.Allow() call for address a.
AllowStepFor(a) == Len(log') = Len(log) + 1 /\ log'[Len(log')].ip = a

\* Handler p is inside the middleware, before next.ServeHTTP.
InAdmit(p) == pc[p] \in {"lock", "lookup", "create", "unlock", "allow"}

\* ------------------------------------------------------------------ claims
\* C1: for every address, at most 3 (Burst) calls are admitted within any
\* window shorter than one second, i.e. among admissions whose times all lie
\* in [t, t + TicksPerSecond - 1] for some t.
C1_AtMostBurstPerWindow ==
    \A a \in Addrs : \A t \in Times :
        Cardinality({i \in AdmitsOf(a) :
                        t <= log[i].t /\ log[i].t < t + TicksPerSecond}) <= Burst

\* Three calls admitted and a fourth denied inside one sub-second window.
C1_Witness ==
    \E a \in Addrs : \E t \in Times :
        /\ Cardinality({i \in AdmitsOf(a) :
                          t <= log[i].t /\ log[i].t < t + TicksPerSecond}) = Burst
        /\ \E j \in DOMAIN log :
              /\ log[j].ip = a /\ ~log[j].ok
              /\ t <= log[j].t /\ log[j].t < t + TicksPerSecond

\* The pattern of C2 in the calls c of one address: call d is denied right
\* after three admitted calls, and call n comes at least a second after d
\* with no admitted call in between.
EmptiedThenWaited(c, d, n) ==
    /\ d > Burst /\ d < n /\ n <= Len(c)
    /\ ~c[d].ok
    /\ \A i \in (d - Burst)..(d - 1) : c[i].ok
    /\ \A i \in (d + 1)..(n - 1) : ~c[i].ok
    /\ c[n].t >= c[d].t + TicksPerSecond

\* Call n + 1 is issued immediately after call n.
ImmediatelyAfter(c, n) == n + 1 <= Len(c) /\ c[n + 1].t = c[n].t

\* C2 as stated: after the bucket was emptied and at least one second passed
\* with no admission, the next call is admitted and a call issued immediately
\* after it is denied (exactly one more admission).
C2_ExactlyOneAfterWait ==
    \A a \in Addrs :
        LET c == CallsOf(a) IN
        \A d \in 1..Len(c) : \A n \in 1..Len(c) :
            EmptiedThenWaited(c, d, n) =>
                /\ c[n].ok
                /\ ImmediatelyAfter(c, n) => ~c[n + 1].ok

\* C2 amended: after the bucket was emptied and at least one second passed
\* with no admission, the next call is admitted; a call issued immediately
\* after it is denied when the wait was exactly one second, and admitted when
\* the wait was two seconds or more.
C2_AtLeastOneAfterWait ==
    \A a \in Addrs :
        LET c == CallsOf(a) IN
        \A d \in 1..Len(c) : \A n \in 1..Len(c) :
            EmptiedThenWaited(c, d, n) =>
                /\ c[n].ok
                /\ (ImmediatelyAfter(c, n) /\ c[n].t = c[d].t + TicksPerSecond)
                      => ~c[n + 1].ok
                /\ (ImmediatelyAfter(c, n) /\ c[n].t >= c[d].t + 2 * TicksPerSecond)
                      => c[n + 1].ok

\* The bucket was emptied, exactly one second passed, one call was admitted
\* and the call right after it was denied.
C2_Witness ==
    \E a \in Addrs :
        LET c == CallsOf(a) IN
        \E d \in 1..Len(c) : \E n \in 1..Len(c) :
            /\ EmptiedThenWaited(c, d, n)
            /\ c[n].t = c[d].t + TicksPerSecond
            /\ ImmediatelyAfter(c, n)
            /\ c[n].ok /\ ~c[n + 1].ok

\* C3: the first 3 calls of an address are admitted whatever their spacing,
\* and a 4th call made less than one second after the first is denied.
C3_FirstBurstAdmitted ==
    \A a \in Addrs :
        LET c == CallsOf(a) IN
        /\ \A i \in 1..Len(c) : i <= Burst => c[i].ok
        /\ (Len(c) > Burst /\ c[Burst + 1].t - c[1].t < TicksPerSecond)
              => ~c[Burst + 1].ok

\* Four calls of a new address within one second, not all at the same
\* instant: three admitted, the fourth denied.
C3_Witness ==
    \E a \in Addrs :
        LET c == CallsOf(a) IN
        /\ Len(c) > Burst
        /\ c[Burst + 1].t - c[1].t < TicksPerSecond
        /\ c[Burst].t > c[1].t
        /\ c[1].ok /\ c[2].ok /\ c[3].ok /\ ~c[Burst + 1].ok

\* C4: every step a handler takes inside the middleware for address a
\* (lookup, creation, Allow, admitted or denied) leaves the bucket of every
\* other address, and the result a call for it would get, unchanged; and two
\* addresses that differ only in the port never share a bucket.
C4_Independent ==
    /\ [](\A a \in Addrs : \A b \in Addrs \ {a} :
            (VisitorKey(a) \in DOMAIN visitors /\ VisitorKey(b) \in DOMAIN visitors)
                => visitors[VisitorKey(a)] # visitors[VisitorKey(b)])
    /\ [][\A p \in Procs :
            (InAdmit(p) /\ pc'[p] # pc[p]) =>
                \A b \in Addrs \ {ip[p]} :
                    /\ BucketOf(b)' = BucketOf(b)
                    /\ WouldAdmit(b)' = WouldAdmit(b)]_vars

\* One address has used up its bucket and was denied; a call for the other
\* address at that same instant is admitted.
C4_Witness ==
    \E i \in DOMAIN log : \E j \in DOMAIN log :
        /\ i < j
        /\ log[i].ip # log[j].ip
        /\ ~log[i].ok
        /\ log[j].ok
        /\ log[j].t = log[i].t

\* The time of the first call for address a.
FirstCall(a) == CallsOf(a)[1].t

\* C5: under every interleaving, the tokens handed out for an address plus
\* those its bucket still offers never exceed what accrued for it: 3 at its
\* first call plus 1 per second since.
C5_NeverMoreThanAccrued ==
    \A a \in Addrs :
        AdmitsOf(a) # {} =>
            /\ OneToken * Cardinality(AdmitsOf(a))
                  <= Capacity + Limit * (now - FirstCall(a))
            /\ BucketOf(a) # <<>>
            /\ OneToken * Cardinality(AdmitsOf(a)) + advance(BucketOf(a), now)
                  <= Capacity + Limit * (now - FirstCall(a))

\* Two handlers hold the same bucket at once; one has just taken its last
\* token, so the other is about to be denied.
C5_Witness ==
    \E p \in Procs :
        /\ pc[p] = "allow"
        /\ Len(log) > 0
        /\ log[Len(log)].ip = ip[p]
        /\ log[Len(log)].ok
        /\ log[Len(log)].t = now
        /\ \E q \in Procs \ {p} : ip[q] = ip[p] /\ pc[q] = "next"
        /\ advance(limiters[limiter[p]], now) < OneToken

\* C6: an address has exactly one bucket: every rate.Limiter ever created is
\* the registered bucket of one key, every handler of an address holds that
\* registered bucket, all calls of an address went to the same bucket, and a
\* registered bucket is never replaced or removed.
C6_OneBucketPerIdentity ==
    /\ [](/\ Len(limiters) = Cardinality(DOMAIN visitors)
          /\ \A p \in Procs :
                limiter[p] # 0 =>
                    /\ VisitorKey(ip[p]) \in DOMAIN visitors
                    /\ limiter[p] = visitors[VisitorKey(ip[p])]
          /\ \A i \in DOMAIN log : \A j \in DOMAIN log :
                log[i].ip = log[j].ip => log[i].lim = log[j].lim)
    /\ [][/\ DOMAIN visitors \subseteq DOMAIN visitors'
          /\ \A k \in DOMAIN visitors : visitors'[k] = visitors[k]]_vars

\* Two first requests of one address ran concurrently and both hold the one
\* bucket created for it.
C6_Witness ==
    \E p \in Procs : \E q \in Procs \ {p} :
        /\ pc[p] = "allow" /\ pc[q] = "allow"
        /\ ip[p] = ip[q]
        /\ limiter[p] = limiter[q]
        /\ CallsOf(ip[p]) = <<>>

\* C7: a denied limiter.Allow() changes neither any bucket (token count and
\* refill timestamp) nor the registry.
C7_DeniedHasNoEffect ==
    [][(Len(log') = Len(log) + 1 /\ ~log'[Len(log')].ok)
          => (limiters' = limiters /\ visitors' = visitors)]_vars

\* A call was denied with part of a token accrued, and a later call for the
\* same address, less than a second after the denial, was admitted.
C7_Witness ==
    \E i \in DOMAIN log : \E j \in DOMAIN log :
        /\ i < j
        /\ log[i].ip = log[j].ip
        /\ ~log[i].ok
        /\ log[j].ok
        /\ log[i].t > 0
        /\ log[j].t - log[i].t < TicksPerSecond

\* What the handler of a request did after the middleware let it through.
AllowEvents == {"Allow=true", "Allow=false"}
ValidateEvents == {"Validate:present", "Validate:missing"}
FetchEvents == {"FetchFeed:free", "FetchFeed:conflict", "FetchFeed:error"}
ReadEvents == {"ReadDestinations:match", "ReadDestinations:mismatch",
               "ReadDestinations:error"}
InsertEvents == {"Insert:ok", "Insert:query error"}

\* C8: every request, on every route, goes through limiter.Allow() exactly
\* once and before anything else; a denied request is answered 429 and does
\* nothing more: no validation, no feed fetch, no destination read, no insert.
C8_AdmitFirstAndOnce ==
    \A p \in Procs :
        /\ pc[p] \in {"next", "availability", "schedule", "insert"}
              => (trace[p] # <<>> /\ trace[p][1] = "Allow=true")
        /\ \A i \in DOMAIN trace[p] : (i = 1) <=> (trace[p][i] \in AllowEvents)
        /\ (trace[p] # <<>> /\ trace[p][1] = "Allow=false")
              => (trace[p] = <<"Allow=false">> /\ resp[p] = 429 /\ pc[p] = "idle")

\* A complete, valid booking request was denied and did nothing else.
C8_Witness ==
    \E p \in Procs :
        /\ trace[p] = <<"Allow=false">>
        /\ route[p] = "POST /bookings"
        /\ body[p] = BookingJSON(Birthday, "test_launchpad", 6, LaunchDay)
        /\ resp[p] = 429
        /\ bookings = <<>>

\* C9: validateBooking runs its gates in the order field presence, launchpad
\* availability, destination schedule and stops at the first that fails: a
\* payload lacking a date causes no external read, the feed is fetched only
\* after the dates were found present, and the destinations are read only
\* right after a fetch that succeeded and showed no conflict.
C9_GatesInOrder ==
    \A p \in Procs :
        LET tr == trace[p] IN
        /\ \A i \in DOMAIN tr :
            /\ tr[i] \in ValidateEvents => (i > 1 /\ tr[i - 1] = "Decode:ok")
            /\ tr[i] \in FetchEvents => (i > 1 /\ tr[i - 1] = "Validate:present")
            /\ tr[i] \in ReadEvents => (i > 1 /\ tr[i - 1] = "FetchFeed:free")
            /\ tr[i] \in {"Validate:missing", "FetchFeed:conflict", "FetchFeed:error",
                          "ReadDestinations:mismatch", "ReadDestinations:error"}
                  => (i = Len(tr) /\ pc[p] = "idle")
        /\ (/\ body[p].kind = "booking"
            /\ (body[p].launch_date = Absent \/ body[p].birthday = Absent))
              => \A i \in DOMAIN tr : tr[i] \notin FetchEvents \cup ReadEvents

\* One request without a birth date stopped at the first gate, and another,
\* complete one stopped at the launchpad conflict: neither read further.
C9_Witness ==
    \E p \in Procs : \E q \in Procs :
        /\ body[p] = BookingJSON(Absent, "test_launchpad", 6, LaunchDay)
        /\ trace[p] = <<"Allow=true", "Decode:ok", "Validate:missing">>
        /\ trace[q] = <<"Allow=true", "Decode:ok", "Validate:present",
                        "FetchFeed:conflict">>

\* Record r of the feed is a launch on launchpad l on the calendar day
\* written in the text d: its timestamp is RFC 3339 and names that day.
LaunchOn(r, l, d) ==
    /\ r.date_local.kind = "rfc3339"
    /\ r.launchpad = l
    /\ r.date_local.date = d.date

\* C10: when the feed was fetched, the check answers "unavailable" (false,
\* no error) exactly when some record has a timestamp that parses, the
\* requested launchpad and the requested calendar day (each day as written,
\* in the timestamp's own offset); otherwise it answers "available".
C10_UnavailableIffMatch ==
    (ret # <<>> /\ call.fetch = "ok") =>
        /\ ret.err = "nil"
        /\ ~ret.ok <=>
              \E i \in DOMAIN call.launches :
                  LaunchOn(call.launches[i], call.launchpadID, call.launch_date)

\* The check skipped a launch of another launchpad on the same day and an
\* unparseable record, and then found the conflicting launch.
C10_Witness ==
    /\ ret # <<>> /\ call.fetch = "ok"
    /\ ~ret.ok /\ ret.err = "nil"
    /\ Len(call.launches) = 2
    /\ call.launches[1].date_local = InvalidStamp
    /\ LaunchOn(call.launches[2], call.launchpadID, call.launch_date)

\* validateBooking was called for the request served on its own.
Validated == ret # <<>> /\ ret.v # <<>>

\* The feed holds a record of a launch on the requested launchpad on the
\* requested launch day.
FeedHasLaunchOnRequestedDay ==
    /\ call.body.kind = "booking"
    /\ call.body.launch_date.kind = "rfc3339"
    /\ \E i \in DOMAIN feed :
          LaunchOn(feed[i], call.body.launchpad_id, call.body.launch_date)

\* The rejection of the launch-site gate: (false, nil), answered 400.
LaunchSiteConflict ==
    /\ Validated
    /\ ret.v = [valid |-> FALSE, err |-> "nil"]
    /\ ret.status = 400

\* C11 as stated: when the fetched feed holds a launch on the requested
\* launchpad and day, the request is rejected as a launch-site conflict
\* whatever its other fields are, the birth date included.
C11_ConflictWhateverOtherFields ==
    (ret # <<>> /\ call.fetch = "ok" /\ FeedHasLaunchOnRequestedDay)
        => LaunchSiteConflict

\* C11 amended: when the fetched feed holds a launch on the requested
\* launchpad and day and the request carries a birth date, the request is
\* rejected as a launch-site conflict whatever its destination and whatever
\* the destinations table holds or its query ends in; without a birth date
\* validateBooking returns the missing-dates error instead.
C11_ConflictWhenDatesPresent ==
    (ret # <<>> /\ call.fetch = "ok" /\ FeedHasLaunchOnRequestedDay) =>
        IF call.body.birthday = Absent
        THEN /\ Validated
             /\ ret.v = [valid |-> FALSE,
                         err |-> "launch date and birthday must be provided"]
        ELSE LaunchSiteConflict

\* A launch-site conflict was reported for a request whose destination is
\* not the day's, against a destinations query that would have failed.
C11_Witness ==
    /\ ret # <<>> /\ call.fetch = "ok" /\ FeedHasLaunchOnRequestedDay
    /\ call.body.birthday = Birthday
    /\ call.body.launch_date = LaunchDay
    /\ call.body.destination_id = 1
    /\ call.query = "query error"
    /\ LaunchSiteConflict

\* The records of a feed whose timestamp is RFC 3339, in the feed's order.
Parseable(launches) ==
    LET IsRFC3339(r) == r.date_local.kind = "rfc3339"
    IN  SelectSeq(launches, IsRFC3339)

\* C12: a record whose timestamp does not parse is skipped: the check of a
\* fetched feed returns no error and answers what it answers for the feed
\* with the unparseable records taken out, so such a record is never the
\* conflict, and a parseable conflicting record is found wherever it stands.
C12_UnparseableSkipped ==
    (ret # <<>> /\ call.fetch = "ok") =>
        /\ ret.err = "nil"
        /\ ret = CheckLaunchpadAvailability("ok", Parseable(call.launches),
                                            call.launchpadID,
                                            DecodeTime(call.launch_date))
        /\ ~ret.ok => \E i \in DOMAIN call.launches :
                          call.launches[i].date_local # InvalidStamp
        /\ \A i \in DOMAIN call.launches :
              LaunchOn(call.launches[i], call.launchpadID, call.launch_date)
                  => ~ret.ok

\* The feed's first record is for the requested launchpad but its timestamp
\* does not parse, and its second is a launch there on another day: the
\* launchpad is reported available, with no error.
C12_Witness ==
    /\ ret # <<>> /\ call.fetch = "ok"
    /\ Len(call.launches) = 2
    /\ call.launches[1] = Launch(call.launchpadID, InvalidStamp)
    /\ call.launches[2].launchpad = call.launchpadID
    /\ call.launches[2].date_local.kind = "rfc3339"
    /\ call.launches[2].date_local.date # call.launch_date.date
    /\ ret = [ok |-> TRUE, err |-> "nil"]

\* The request served on its own carries both dates, so validateBooking went
\* on to fetch the feed.
FeedFetched ==
    /\ call.body.kind = "booking"
    /\ call.body.birthday # Absent
    /\ call.body.launch_date # Absent

\* C13: when the fetch of the feed fails (http.Get, io.ReadAll or
\* json.Unmarshal), validateBooking returns (false, that error) whatever the
\* request's launchpad, day and destination and whatever the destinations
\* table holds; the handler answers 500 and no booking is inserted.
C13_FetchFailureFailsClosed ==
    (ret # <<>> /\ call.fetch # "ok" /\ FeedFetched) =>
        /\ Validated
        /\ ret.v = [valid |-> FALSE, err |-> call.fetch]
        /\ ret.status = 500
        /\ bookings = <<>>

\* A request that would have been accepted (free launchpad, the day's
\* destination, insert possible) was answered 500 because the API's answer
\* did not decode, and nothing was inserted.
C13_Witness ==
    /\ ret # <<>> /\ call.fetch = "unmarshal error"
    /\ call.body = BookingJSON(Birthday, "test_launchpad", 6, LaunchDay)
    /\ feed = <<>> /\ dests = 1..7
    /\ call.query = "ok" /\ call.insert = "ok"
    /\ ret.v = [valid |-> FALSE, err |-> "unmarshal error"]
    /\ ret.status = 500
    /\ bookings = <<>>

\* The k-th smallest of a set of ids.
Nth(ids, k) == CHOOSE x \in ids : Cardinality({y \in ids : y < x}) = k - 1

\* The weekday of the day written in a launch date, Monday = 0 ... Sunday = 6,
\* counted from Saturday 2049-12-25.
MondayWeekday(s) == (s.date - Day20491225 + 5 + 7) % 7

C15_EmptyTableIsError ==
    (/\ ret # <<>> /\ FeedFetched
     /\ call.fetch = "ok" /\ ~FeedHasLaunchOnRequestedDay
     /\ call.query = "ok" /\ dests = {}) =>
        /\ Validated
        /\ ret.v = [valid |-> FALSE, err |-> "no destinations available"]
        /\ ret.status = 500
        /\ bookings = <<>>

\* A complete request for a launchpad the feed lists only on another day was
\* answered 500 because the destinations table is empty.
C15_Witness ==
    /\ ret # <<>> /\ call.fetch = "ok" /\ call.query = "ok" /\ dests = {}
    /\ call.body = BookingJSON(Birthday, "test_launchpad", 6, LaunchDay)
    /\ feed = <<Launch("test_launchpad", Stamp(Day20491225 + 1, 0, 0))>>
    /\ ret.v = [valid |-> FALSE, err |-> "no destinations available"]
    /\ ret.status = 500
    /\ bookings = <<>>

\* The request served on its own decoded to a booking that lacks a date.
DateMissing ==
    /\ call.body.kind = "booking"
    /\ (call.body.birthday = Absent \/ call.body.launch_date = Absent)

\* What the handler writes for a failure of the launch API or the database.
ServerFault == [status |-> 500, text |-> "Internal Server Error"]

\* What the handler wrote for the request served on its own.
Response == [status |-> ret.status, text |-> ret.text]

\* C16: a request turned down for a missing date, or for a launch-site
\* conflict or destination mismatch ((false, nil)), is answered otherwise
\* than with the server-fault response, which only a failed fetch, a failed
\* or empty destinations read or a failed insert gets.
C16_RejectionsAreNotServerFaults ==
    ret # <<>> =>
        /\ DateMissing => Response # ServerFault
        /\ (Validated /\ ret.v = [valid |-> FALSE, err |-> "nil"])
              => Response # ServerFault

\* A booking without a birth date was answered with the server-fault
\* response although the launch API and the database were in order.
C16_Witness ==
    /\ ret # <<>>
    /\ call.body = BookingJSON(Absent, "test_launchpad", 6, LaunchDay)
    /\ call.fetch = "ok" /\ call.query = "ok" /\ call.insert = "ok"
    /\ feed = <<>> /\ dests = 1..7
    /\ Response = ServerFault

\* The gate at which call c of validateBooking alone stops, told from what
\* the call was given: "fields" when a date is absent, "launch site" when the
\* fetched feed lists the launchpad on the day, "rotation" when the
\* destination is not the day's in a non-empty table, "upstream" when the
\* fetch or the read fails or the table is empty, "none" when all pass.
FailedGate(c) ==
    IF c.body.birthday = Absent \/ c.body.launch_date = Absent THEN "fields"
    ELSE IF c.fetch # "ok" THEN "upstream"
    ELSE IF \E i \in DOMAIN feed :
                LaunchOn(feed[i], c.body.launchpad_id, c.body.launch_date)
         THEN "launch site"
    ELSE IF c.query # "ok" \/ dests = {} THEN "upstream"
    ELSE IF c.body.destination_id #
                Nth(dests, (MondayWeekday(c.body.launch_date) % Cardinality(dests)) + 1)
         THEN "rotation"
    ELSE "none"

\* C17: the value validateBooking returns identifies the gate that stopped
\* the request: two calls that stopped at different gates (or of which one
\* passed) returned different values, so a launch-site conflict can be told
\* from a destination mismatch.
C17_ValueIdentifiesGate ==
    Len(ret) = 2 =>
        (FailedGate(call[1]) # FailedGate(call[2]) => ret[1] # ret[2])

\* One call stopped at the launch-site gate and the other, for another
\* launchpad, at the rotation gate; both returned (false, nil).
C17_Witness ==
    /\ Len(ret) = 2
    /\ FailedGate(call[1]) = "launch site"
    /\ FailedGate(call[2]) = "rotation"
    /\ ret[1] = [valid |-> FALSE, err |-> "nil"]
    /\ ret[2] = [valid |-> FALSE, err |-> "nil"]

\* What the handler of a request has done when it reaches the insert.
AcceptedTrace ==
    <<"Allow=true", "Decode:ok", "Validate:present", "FetchFeed:free",
      "ReadDestinations:match">>

\* The payload passes every gate of validateBooking against the launch API's
\* answer and the destinations table, both read without error.
PassesAllGates(b) ==
    /\ b.kind = "booking"
    /\ FailedGate([fetch |-> "ok", query |-> "ok", body |-> b]) = "none"

\* C18: a handler is at the insert, or past it, only with the trace of an
\* accepted request (admitted, decoded, both dates present, launchpad free,
\* destination matching) and a payload that does pass every gate; every row
\* of the bookings table is such a payload's booking; and 201 is the answer
\* exactly of the requests whose insert succeeded.
C18_InsertOnlyAfterAccepted ==
    /\ \A p \in Procs :
        LET tr == trace[p] IN
        /\ pc[p] = "insert" => (tr = AcceptedTrace /\ PassesAllGates(body[p]))
        /\ \A i \in DOMAIN tr :
              tr[i] \in InsertEvents =>
                  /\ i = Len(AcceptedTrace) + 1 /\ i = Len(tr)
                  /\ SubSeq(tr, 1, i - 1) = AcceptedTrace
                  /\ PassesAllGates(body[p])
        /\ resp[p] = 201 <=> (tr # <<>> /\ tr[Len(tr)] = "Insert:ok")
        /\ (tr # <<>> /\ tr[Len(tr)] = "Insert:ok")
              => \E k \in DOMAIN bookings : bookings[k] = Decode(body[p]).booking
    /\ \A k \in DOMAIN bookings :
          \E b \in Bodies : PassesAllGates(b) /\ bookings[k] = Decode(b).booking

\* One request was accepted, inserted and answered 201; another, with a
\* destination that is not the day's, was answered 400 and left no row.
C18_Witness ==
    \E p \in Procs : \E q \in Procs :
        /\ trace[p] = Append(AcceptedTrace, "Insert:ok")
        /\ resp[p] = 201
        /\ trace[q] = <<"Allow=true", "Decode:ok", "Validate:present",
                        "FetchFeed:free", "ReadDestinations:mismatch">>
        /\ resp[q] = 400
        /\ bookings = <<Decode(body[p]).booking>>
        /\ Decode(body[q]).booking # Decode(body[p]).booking

\* Handlers p and q serve requests for the same launchpad and launch day.
SameSiteAndDay(p, q) ==
    /\ body[p].kind = "booking" /\ body[q].kind = "booking"
    /\ body[p].launchpad_id = body[q].launchpad_id
    /\ body[p].launch_date = body[q].launch_date

\* C19: between validateBooking's return and the insert a handler holds no
\* lock and nothing looks at the rows already stored: whenever a handler is
\* validating or at the insert it does not hold the mutex, and whenever it
\* is at the insert the insert can succeed and add its row, whatever the
\* other handlers do and whatever the bookings table holds; so of two
\* requests for one launchpad and day that are both at the insert, both
\* rows get stored.
C19_NothingBetweenValidateAndInsert ==
    \A p \in Procs :
        /\ pc[p] \in {"availability", "schedule", "insert"} => mu # p
        /\ pc[p] = "insert" =>
              ENABLED (/\ CreateBooking(p)
                       /\ bookings' = Append(bookings, Decode(body[p]).booking))

\* Two requests for the same launchpad and day have both been validated
\* against the same feed and table and both stand before the insert, with no
\* row stored yet.
C19_Witness ==
    \E p \in Procs : \E q \in Procs \ {p} :
        /\ pc[p] = "insert" /\ pc[q] = "insert"
        /\ SameSiteAndDay(p, q)
        /\ trace[p] = AcceptedTrace /\ trace[q] = AcceptedTrace
        /\ bookings = <<>>

\* The events in which validateBooking ends without an upstream error.
VerdictEvents ==
    {"Validate:missing", "FetchFeed:conflict", "ReadDestinations:mismatch",
     "ReadDestinations:match"}

\* How validateBooking ended for the request of handler p: one of the
\* verdict events, or "none" while it runs, was not called, or failed
\* upstream.
Verdict(p) ==
    IF \E i \in DOMAIN trace[p] : trace[p][i] \in VerdictEvents
    THEN trace[p][CHOOSE i \in DOMAIN trace[p] : trace[p][i] \in VerdictEvents]
    ELSE "none"

\* Handler p takes a step of validateBooking.
ValidateStep(p) ==
    /\ route[p] = "POST /bookings"
    /\ pc[p] \in {"next", "availability", "schedule"}
    /\ pc'[p] # pc[p]

\* C20: two requests with the same payload, validated against the same
\* launch API answer and destinations table, get the same verdict, whichever
\* requests were admitted, validated or inserted before or meanwhile; and a
\* step of validateBooking changes neither the API's answer, the
\* destinations, the bookings, the limiter registry nor its buckets.
C20_ValidateIsPure ==
    /\ [](\A p \in Procs : \A q \in Procs :
            (body[p] = body[q] /\ Verdict(p) # "none" /\ Verdict(q) # "none")
                => Verdict(p) = Verdict(q))
    /\ [][\A p \in Procs :
            ValidateStep(p) =>
                UNCHANGED <<feed, dests, bookings, visitors, limiters, mu, log>>]_vars

\* A request was accepted although a booking for the same launchpad and day,
\* from an identical request, is already stored.
C20_Witness ==
    \E p \in Procs : \E q \in Procs \ {p} :
        /\ body[p] = body[q]
        /\ trace[p] = Append(AcceptedTrace, "Insert:ok")
        /\ bookings = <<Decode(body[p]).booking>>
        /\ trace[q] = AcceptedTrace
        /\ Verdict(p) = Verdict(q)

\* The instant an RFC 3339 text denotes, in hours since 1970-01-01T00:00Z.
Instant(s) == s.date * 24 + s.hour - s.off

\* The feed with the timestamp of record i written as the text s.
Rewritten(launches, i, s) ==
    [launches EXCEPT ![i] = Launch(launches[i].launchpad, s)]

\* C21: the answer of the availability check depends on a record's timestamp
\* only through the instant it denotes: writing the timestamp of any record
\* with another UTC offset, the instant kept, leaves the answer as it is.
C21_VerdictByInstantOnly ==
    (ret # <<>> /\ call.fetch = "ok") =>
        \A i \in DOMAIN call.launches : \A s \in FeedStamps :
            (/\ call.launches[i].date_local.kind = "rfc3339"
             /\ s.kind = "rfc3339"
             /\ Instant(s) = Instant(call.launches[i].date_local)) =>
                CheckLaunchpadAvailability("ok", Rewritten(call.launches, i, s),
                                           call.launchpadID,
                                           DecodeTime(call.launch_date)) = ret

\* The feed's one record is a launch at 23:00Z on 2049-12-25 on the launchpad
\* requested for that day, and the answer is "unavailable"; the same instant
\* written as 01:00+02:00 on 2049-12-26 gives "available".
C21_Witness ==
    /\ ret = [ok |-> FALSE, err |-> "nil"]
    /\ call.fetch = "ok"
    /\ call.launch_date = Stamp(Day20491225, 0, 0)
    /\ call.launches = <<Launch(call.launchpadID, Stamp(Day20491225, 23, 0))>>
    /\ Instant(Stamp(Day20491225 + 1, 1, 2)) = Instant(Stamp(Day20491225, 23, 0))
    /\ CheckLaunchpadAvailability(
          "ok", <<Launch(call.launchpadID, Stamp(Day20491225 + 1, 1, 2))>>,
          call.launchpadID, DecodeTime(call.launch_date))
            = [ok |-> TRUE, err |-> "nil"]

\* The verdict event validateBooking ends in when no upstream read fails, told
\* from the payload, the launch API's answer and the destinations table.
VerdictFor(b) ==
    LET gate == FailedGate([fetch |-> "ok", query |-> "ok", body |-> b])
    IN  IF gate = "fields" THEN "Validate:missing"
        ELSE IF gate = "launch site" THEN "FetchFeed:conflict"
        ELSE IF gate = "rotation" THEN "ReadDestinations:mismatch"
        ELSE IF gate = "none" THEN "ReadDestinations:match"
        ELSE "none"

\* C22: validateBooking does not look at the bookings table: the verdict of
\* every request is the one its payload gets from the launch API's answer and
\* the destinations table alone; a request passes the launchpad check exactly
\* when the API's answer lists no launch on its launchpad and day; and a
\* request at the insert can have its row inserted whatever rows are stored, a
\* row for the same launchpad and day included.
C22_StoredBookingsNotConsulted ==
    \A p \in Procs :
        /\ Verdict(p) # "none" => Verdict(p) = VerdictFor(body[p])
        /\ pc[p] = "availability" =>
              (VerdictFor(body[p]) # "FetchFeed:conflict" <=>
                  ENABLED (validateBookingAvailability(p) /\ pc'[p] = "schedule"))
        /\ pc[p] = "insert" =>
              ENABLED (CreateBooking(p) /\ Len(bookings') = Len(bookings) + 1)

\* One handler served the only two requests there were, one after the other,
\* and both left a row: the same launchpad, day and destination twice.
C22_Witness ==
    \E p \in Procs : \E q \in Procs \ {p} :
        /\ nreq = 2
        /\ body[q] = NoBody /\ trace[q] = <<>> /\ pc[q] = "idle"
        /\ trace[p] = Append(AcceptedTrace, "Insert:ok")
        /\ Len(bookings) = 2
        /\ bookings[1] = bookings[2]
        /\ bookings[2] = Decode(body[p]).booking

\* Those of the calls `admits` (positions in the log) made at times t1..t2.
AdmitsWithin(admits, t1, t2) ==
    {i \in admits : t1 <= log[i].t /\ log[i].t <= t2}

\* C23: for every address and every window of T seconds, T >= 0, at most
\* 3 + T calls are admitted within the window (in clock units: OneToken per
\* admission against Capacity plus Limit per tick of the window), and no
\* bucket ever stores or offers more than 3 tokens.
C23_AtMostBurstPlusT ==
    /\ \A a \in Addrs :
          LET admits == AdmitsOf(a) IN
          \A t1 \in Times : \A t2 \in t1..MaxTime :
              OneToken * Cardinality(AdmitsWithin(admits, t1, t2))
                  <= Capacity + Limit * (t2 - t1)
    /\ \A k \in DOMAIN limiters :
          /\ limiters[k].tokens <= Capacity
          /\ advance(limiters[k], now) <= Capacity

\* An address took one token, stayed idle for two seconds, which would have
\* accrued two tokens onto the two left, and then had three calls admitted
\* and the fourth denied at one instant.
C23_Witness ==
    \E a \in Addrs :
        LET c == CallsOf(a) IN
        \E k \in 1..Len(c) :
            /\ k + 4 <= Len(c)
            /\ c[k].ok
            /\ c[k + 1].t >= c[k].t + 2 * TicksPerSecond
            /\ \A j \in (k + 1)..(k + 4) : c[j].t = c[k + 1].t
            /\ c[k + 1].ok /\ c[k + 2].ok /\ c[k + 3].ok
            /\ ~c[k + 4].ok

\* The destination ids that pass the check for a launch date written as s
\* against a table holding ids, among the ids of the table and ids that are
\* in no table.
AcceptedOn(ids, s) ==
    {d \in 0..10 :
        CheckDestinationSchedule("ok", ids, d, "test_launchpad", DecodeTime(s))
            = [ok |-> TRUE, err |-> "nil"]}

C25_AdmitReturns ==
    /\ \A p \in Procs : InAdmit(p) ~> ~InAdmit(p)
    /\ [](\A p \in Procs :
            /\ pc[p] = "allow" => mu # p
            /\ mu = p => pc[p] \in {"lookup", "create", "unlock"})

\* A handler waits in mu.Lock() while another, serving the same address,
\* holds the mutex inside getVisitor.
C25_Witness ==
    \E p \in Procs : \E q \in Procs \ {p} :
        /\ pc[p] = "lock"
        /\ mu = q
        /\ pc[q] \in {"lookup", "create", "unlock"}
        /\ ip[p] = ip[q]

====
